---------------------------- MODULE Spec2Model ----------------------------
(***************************************************************************)
(* Model of the farm-management backend (FastAPI routes over SQLAlchemy    *)
(* tables).  Every table is a sequence of rows whose index is the row's    *)
(* autoincrement primary key; rows are never removed.  Every route is one  *)
(* action: it reads the committed tables, and either commits its writes    *)
(* or leaves the tables as they were, and it records the HTTP response in  *)
(* resp.  A request carries a bearer token tok: the id of a registered     *)
(* user, NoToken (no Authorization header) or BadToken (a token whose      *)
(* signature, expiry or subject is invalid).                               *)
(*                                                                         *)
(* Modelling notes.                                                        *)
(*  - Timestamps: a DateTime is day * TicksPerDay + tick, tick 0 being     *)
(*    midnight; a Date is the day.  A Date compared with a DateTime column *)
(*    is widened to midnight of that day, as PostgreSQL does.              *)
(*  - record_created_date of crop_daily is the clock's day (today) at the  *)
(*    insert; rows of one table are created in primary-key order, so       *)
(*    "ORDER BY record_created_date DESC" is "highest id first".  The      *)
(*    server's local time zone is taken to be UTC.                         *)
(*  - models/model.py declares no farm_id column on Harvest although the   *)
(*    harvest routes and schemas/harvest.py (OutHarvest.farm_id) use it;   *)
(*    the rows modelled here carry farm_id, as the routes assume.          *)
(*  - Columns that no route reads back (names, sizes, amounts, audit       *)
(*    timestamps) are not modelled.                                        *)
(*  - A handler awaits the database between its statements, so other    *)
(*    requests run between its reads and its commit, and between two of   *)
(*    its commits.  The routes for which that matters are also given as   *)
(*    their steps (Begin..., Commit...): inflight holds the requests that  *)
(*    have taken a step and not yet the last one.                          *)
(***************************************************************************)
EXTENDS Integers, Sequences, FiniteSets, TLC

VARIABLES users, user_logins, farms, farm_expect, methods, crops, crop_daily,
          harvest, expenses, today, resp, inflight

(* the committed tables *)
db == <<users, user_logins, farms, farm_expect, methods, crops, crop_daily,
        harvest, expenses>>
vars == <<users, user_logins, farms, farm_expect, methods, crops, crop_daily,
          harvest, expenses, today, resp, inflight>>

-----------------------------------------------------------------------------
(* Bounds of the model *)

MaxDay == 2
MaxHarvests == 2

(* times of day: midnight and one later time *)
Ticks == {0, 1}
TicksPerDay == Cardinality(Ticks)

(* SQL NULL / Python None in an integer, date or foreign-key column *)
NULL == 0
(* NULL in an enum column *)
NoStage == "NULL"

Users == {1, 2}
NoToken == 0
BadToken == 3
Tokens == Users \cup {NoToken, BadToken}

NfcCodes == {1, 2, 3}

Days == 1..MaxDay
DateTimes == {d * TicksPerDay + t : d \in Days, t \in Ticks}

(* datetime.date(): the calendar day of a DateTime *)
DateOf(dt) == dt \div TicksPerDay
(* a Date bound against a DateTime column: midnight of that day *)
Midnight(d) == d * TicksPerDay

HarvestUnitEnum == {"kg", "unit"}

-----------------------------------------------------------------------------
(* Helpers *)

Ids(table) == DOMAIN table
Max(S) == CHOOSE x \in S : \A y \in S : y <= x

Reply(route, status) == resp' = [route |-> route, status |-> status]

(* a request that commits nothing: the session closes without a commit *)
Fail(route, status) == Reply(route, status) /\ UNCHANGED <<db, today, inflight>>

(* dependencies.get_current_user: the user a token resolves to, or NULL
   (the route then answers 401) *)
get_current_user(tok) == IF tok \in Users /\ tok \in Ids(users) THEN tok ELSE NULL

(* select(CropDtl).where(nfc_code == nfc): nfc_code is a unique column *)
CropsByNfc(nfc) == {c \in Ids(crops) : crops[c].nfc_code = nfc}
CropByNfc(nfc) == CHOOSE c \in CropsByNfc(nfc) : TRUE

(* select(Farm).where(farm_id == f, user_id == u) is non-empty *)
OwnsFarm(u, f) == f \in Ids(farms) /\ farms[f].user_id = u


-----------------------------------------------------------------------------
(* Tables after construction: the rows every specification starts from *)

UserRow(i) == [email |-> i, password |-> i, last_login_date |-> NULL]
FarmRow(u, abbrev) ==
    [user_id |-> u, farm_abbrev |-> abbrev, farm_status |-> "active",
     farm_is_active |-> TRUE]
MethodRow(creator) == [record_created_by |-> creator, record_status |-> "active"]
CropRow(f, nfc, m, lhd) ==
    [farm_id |-> f, nfc_code |-> nfc, method_id |-> m, crop_stage |-> NoStage,
     last_harvest_date |-> lhd, crop_status |-> "active", crop_is_active |-> TRUE]
(* a crop after soft_delete_crop *)
Terminated(crop) == [crop EXCEPT !.crop_status = "terminated", !.crop_is_active = FALSE]

InitResp == [route |-> "none", status |-> 0]

(* two registered users, one farm each, one crop on each farm, the global
   planting method 1 *)
InitBase ==
    /\ users = [i \in Users |-> UserRow(i)]
    /\ user_logins = <<>>
    /\ inflight = {}
    /\ farms = <<FarmRow(1, 1), FarmRow(2, 2)>>
    /\ farm_expect = <<>>
    /\ methods = <<MethodRow(NULL)>>
    /\ crop_daily = <<>>
    /\ harvest = <<>>
    /\ expenses = <<>>
    /\ today = 1
    /\ resp = InitResp

-----------------------------------------------------------------------------
(* routes/harvest.py *)

(* estimated_kg: None, and a field the request body leaves unset *)
KgNull == -1
KgUnset == -2
Unset == "unset"

HarvestRow(crop, new_harvest) ==
    [crop_id |-> CropByNfc(new_harvest.nfc_code), farm_id |-> crop.farm_id,
     nfc_code |-> new_harvest.nfc_code, harvest_unit |-> new_harvest.harvest_unit,
     estimated_kg |-> new_harvest.estimated_kg,
     harvest_date |-> new_harvest.harvest_date, record_status |-> "active"]

(* Step 3 of create: the active harvests of the NFC code whose harvest_date
   equals new_harvest.harvest_date.date() *)
ExistingHarvest(nfc, dt) ==
    {h \in Ids(harvest) : /\ harvest[h].nfc_code = nfc
                          /\ harvest[h].harvest_date = Midnight(DateOf(dt))
                          /\ harvest[h].record_status = "active"}

(* the status of the exception the body of create_harvest_from_nfc raises
   inside its try block; 0 when it reaches the commit *)
create_harvest_raises(u, new_harvest) ==
    IF CropsByNfc(new_harvest.nfc_code) = {} THEN 404
    ELSE LET crop == crops[CropByNfc(new_harvest.nfc_code)] IN
      IF crop.crop_status # "active" THEN 400
      ELSE IF ~OwnsFarm(u, crop.farm_id) THEN 403
      ELSE LET existing == ExistingHarvest(new_harvest.nfc_code, new_harvest.harvest_date) IN
        (* scalar_one_or_none raises MultipleResultsFound on two rows *)
        IF Cardinality(existing) > 1 THEN 500
        ELSE IF existing # {} THEN 400
        ELSE IF new_harvest.harvest_unit = "unit" /\ new_harvest.estimated_kg = KgNull
          THEN 400
        ELSE 0

(* "except Exception" also catches the HTTPException the body raised:
   whatever was raised, the client gets 500 *)
create_harvest_status(raised) == IF raised = 0 THEN 200 ELSE 500

create_harvest_from_nfc(tok, new_harvest) ==
    LET u == get_current_user(tok) IN
    IF u = NULL THEN Fail("create_harvest_from_nfc", 401)
    ELSE LET raised == create_harvest_raises(u, new_harvest) IN
      IF raised # 0
      THEN Fail("create_harvest_from_nfc", create_harvest_status(raised))
      ELSE LET c == CropByNfc(new_harvest.nfc_code) IN
        /\ Len(harvest) < MaxHarvests
        /\ harvest' = Append(harvest, HarvestRow(crops[c], new_harvest))
        /\ crops' = [crops EXCEPT ![c].last_harvest_date = new_harvest.harvest_date]
        /\ Reply("create_harvest_from_nfc", create_harvest_status(raised))
        /\ UNCHANGED <<inflight, users, user_logins, farms, farm_expect, methods, crop_daily, expenses, today>>

(* model_dump(exclude_unset=True) applied with setattr *)
ApplyHarvestUpdate(row, update_data) ==
    [row EXCEPT
       !.harvest_unit = IF update_data.harvest_unit = Unset THEN @
                        ELSE update_data.harvest_unit,
       !.estimated_kg = IF update_data.estimated_kg = KgUnset THEN @
                        ELSE update_data.estimated_kg,
       !.harvest_date = IF update_data.harvest_date = NULL THEN @
                        ELSE update_data.harvest_date]

(* UpdatedLastHarvestDate as a rule that clears the date when the request
   repeats it *)
UpdatedLastHarvestDate_Alternating(crop, update_data) ==
    IF update_data.harvest_date = NULL THEN crop.last_harvest_date
    ELSE IF update_data.harvest_date # crop.last_harvest_date
      THEN update_data.harvest_date
    ELSE NULL

(* step 4 of update: the crop's last_harvest_date after the request *)
UpdatedLastHarvestDate(crop, update_data) ==
    IF update_data.harvest_date # NULL
       /\ update_data.harvest_date # crop.last_harvest_date
    THEN update_data.harvest_date
    ELSE crop.last_harvest_date

update_harvest(tok, nfc_code, harvest_id, update_data) ==
    LET u == get_current_user(tok)
        active == {c \in CropsByNfc(nfc_code) : crops[c].crop_status = "active"}
    IN
    IF u = NULL THEN Fail("update_harvest", 401)
    ELSE IF active = {} THEN Fail("update_harvest", 404)
    ELSE LET c == CHOOSE x \in active : TRUE IN
      IF ~OwnsFarm(u, crops[c].farm_id) THEN Fail("update_harvest", 403)
      ELSE IF ~(/\ harvest_id \in Ids(harvest)
                /\ harvest[harvest_id].farm_id = crops[c].farm_id
                /\ harvest[harvest_id].nfc_code = nfc_code
                /\ harvest[harvest_id].record_status = "active")
        THEN Fail("update_harvest", 404)
      ELSE IF /\ update_data.harvest_unit = "unit"
              /\ update_data.estimated_kg \in {KgUnset, KgNull, 0}
        THEN Fail("update_harvest", 422)
      ELSE
        /\ crops' = [crops EXCEPT ![c].last_harvest_date =
                                     UpdatedLastHarvestDate(crops[c], update_data)]
        /\ harvest' = [harvest EXCEPT ![harvest_id] = ApplyHarvestUpdate(@, update_data)]
        /\ Reply("update_harvest", 200)
        /\ UNCHANGED <<inflight, users, user_logins, farms, farm_expect, methods, crop_daily, expenses, today>>

(* step 5 of delete: the active harvests of the NFC code *)
ActiveHarvests(nfc) ==
    {h \in Ids(harvest) : harvest[h].nfc_code = nfc /\ harvest[h].record_status = "active"}
HarvestDates(S) == {harvest[h].harvest_date : h \in S}

(* LastHarvestDateAfterDelete as a delete that never touches the crop *)
LastHarvestDateAfterDelete_Kept(crop, harvest_id) == crop.last_harvest_date

(* LastHarvestDateAfterDelete as a delete that always clears the date *)
LastHarvestDateAfterDelete_Cleared(crop, harvest_id) == NULL

(* steps 5 of delete: last_harvest_date once harvest_id is deleted.
   active_harvests[0] is the row with the greatest harvest_date; next_recent
   is the first other row in that order *)
LastHarvestDateAfterDelete(crop, harvest_id) ==
    LET active_harvests == ActiveHarvests(harvest[harvest_id].nfc_code)
        is_most_recent ==
            \/ active_harvests = {}
            \/ harvest[harvest_id].harvest_date >= Max(HarvestDates(active_harvests))
        others == active_harvests \ {harvest_id}
    IN IF is_most_recent
       THEN IF others = {} THEN NULL ELSE Max(HarvestDates(others))
       ELSE crop.last_harvest_date

soft_delete_harvest(tok, harvest_id) ==
    LET u == get_current_user(tok) IN
    IF u = NULL THEN Fail("soft_delete_harvest", 401)
    ELSE IF harvest_id \notin Ids(harvest) THEN Fail("soft_delete_harvest", 404)
    ELSE IF harvest[harvest_id].record_status = "deleted"
      (* "already marked as deleted": answered before the ownership check *)
      THEN Fail("soft_delete_harvest", 200)
    ELSE IF ~OwnsFarm(u, harvest[harvest_id].farm_id) THEN Fail("soft_delete_harvest", 403)
    ELSE IF CropsByNfc(harvest[harvest_id].nfc_code) = {} THEN Fail("soft_delete_harvest", 404)
    ELSE LET c == CropByNfc(harvest[harvest_id].nfc_code) IN
      /\ crops' = [crops EXCEPT ![c].last_harvest_date =
                                   LastHarvestDateAfterDelete(crops[c], harvest_id)]
      /\ harvest' = [harvest EXCEPT ![harvest_id].record_status = "deleted"]
      /\ Reply("soft_delete_harvest", 200)
      /\ UNCHANGED <<inflight, users, user_logins, farms, farm_expect, methods, crop_daily, expenses, today>>

(* request bodies and path parameters the harvest specification draws *)
CreateHarvestBodies ==
    [nfc_code : NfcCodes, harvest_unit : {"kg"}, estimated_kg : {KgNull},
     harvest_date : DateTimes]
UpdateHarvestBodies ==
    [harvest_unit : {Unset}, estimated_kg : {KgUnset}, harvest_date : DateTimes \cup {NULL}]
HarvestIds == 1..MaxHarvests

CreateHarvestBy(tok) == \E b \in CreateHarvestBodies : create_harvest_from_nfc(tok, b)
UpdateHarvestBy(tok) ==
    \E nfc \in NfcCodes, id \in HarvestIds, b \in UpdateHarvestBodies :
        update_harvest(tok, nfc, id, b)
SoftDeleteHarvestBy(tok) == \E id \in HarvestIds : soft_delete_harvest(tok, id)

CreateHarvest == \E tok \in Tokens : CreateHarvestBy(tok)
UpdateHarvest == \E tok \in Tokens : UpdateHarvestBy(tok)
SoftDeleteHarvest == \E tok \in Tokens : SoftDeleteHarvestBy(tok)

(* crop 1 (NFC 1), active, on user 1's farm; crop 2 (NFC 2), terminated, on
   user 2's farm; NFC 3 is no crop *)
InitHarvest ==
    /\ InitBase
    /\ crops = <<CropRow(1, 1, 1, NULL), Terminated(CropRow(2, 2, 1, NULL))>>

NextHarvest == CreateHarvest \/ UpdateHarvest \/ SoftDeleteHarvest

SpecHarvest == InitHarvest /\ [][NextHarvest]_vars

-----------------------------------------------------------------------------
(* routes/dailyCrop.py *)

MaxDaily == 2

(* the CropGrowingStageEnum members the requests draw *)
Stages == {"sprouting", "growing"}

DailyRow(c, daily_crop) ==
    [crop_id |-> c, nfc_code |-> daily_crop.nfc_code,
     crop_stage |-> daily_crop.crop_stage, crop_status |-> "active",
     record_created_date |-> today]

(* select(CropDtl).where(nfc_code == nfc, crop_is_active == True) *)
ActiveCropsByNfc(nfc) == {c \in CropsByNfc(nfc) : crops[c].crop_is_active}

(* step 2 of create: the active records of the NFC code created today *)
ExistingDaily(nfc) ==
    {d \in Ids(crop_daily) : /\ crop_daily[d].nfc_code = nfc
                             /\ crop_daily[d].record_created_date = today
                             /\ crop_daily[d].crop_status = "active"}

(* the route takes no current_user dependency: the token is never read *)
create_daily_crop(tok, daily_crop) ==
    IF ActiveCropsByNfc(daily_crop.nfc_code) = {} THEN Fail("create_daily_crop", 404)
    ELSE IF Cardinality(ExistingDaily(daily_crop.nfc_code)) > 1
      THEN Fail("create_daily_crop", 500)
    ELSE IF ExistingDaily(daily_crop.nfc_code) # {} THEN Fail("create_daily_crop", 400)
    ELSE LET c == CHOOSE x \in ActiveCropsByNfc(daily_crop.nfc_code) : TRUE IN
      /\ Len(crop_daily) < MaxDaily
      /\ crop_daily' = Append(crop_daily, DailyRow(c, daily_crop))
      /\ crops' = IF crops[c].crop_stage # daily_crop.crop_stage
                  THEN [crops EXCEPT ![c].crop_stage = daily_crop.crop_stage]
                  ELSE crops
      /\ Reply("create_daily_crop", 200)
      /\ UNCHANGED <<inflight, users, user_logins, farms, farm_expect, methods, harvest, expenses, today>>

(* step 2 of update: ORDER BY record_created_date DESC LIMIT 1 over every
   record of the NFC code, whatever its status *)
DailyOfNfc(nfc) == {d \in Ids(crop_daily) : crop_daily[d].nfc_code = nfc}

update_latest_daily_crop(tok, nfc_code, daily_crop_update) ==
    LET u == get_current_user(tok)
        owned == {c \in ActiveCropsByNfc(nfc_code) : OwnsFarm(u, crops[c].farm_id)}
    IN
    IF u = NULL THEN Fail("update_latest_daily_crop", 401)
    ELSE IF owned = {} THEN Fail("update_latest_daily_crop", 403)
    ELSE IF DailyOfNfc(nfc_code) = {} THEN Fail("update_latest_daily_crop", 404)
    ELSE LET c == CHOOSE x \in owned : TRUE
             latest_daily == Max(DailyOfNfc(nfc_code))
             crop_stage_updated == daily_crop_update.crop_stage
         IN
      /\ crop_daily' = IF crop_stage_updated # Unset
                       THEN [crop_daily EXCEPT ![latest_daily].crop_stage = crop_stage_updated]
                       ELSE crop_daily
      /\ crops' = IF crop_stage_updated # Unset /\ crops[c].crop_stage # crop_stage_updated
                  THEN [crops EXCEPT ![c].crop_stage = crop_stage_updated]
                  ELSE crops
      /\ Reply("update_latest_daily_crop", 200)
      /\ UNCHANGED <<inflight, users, user_logins, farms, farm_expect, methods, harvest, expenses, today>>

(* step 3 of delete: the records of the NFC code created today that are not
   deleted *)
TodaysDaily(nfc) ==
    {d \in Ids(crop_daily) : /\ crop_daily[d].nfc_code = nfc
                             /\ crop_daily[d].record_created_date = today
                             /\ crop_daily[d].crop_status # "deleted"}

(* LatestActiveStage as a query that still sees the record being deleted *)
LatestActiveStage_Unflushed(nfc, daily_id) ==
    LET rest == {d \in DailyOfNfc(nfc) : crop_daily[d].crop_status # "deleted"}
    IN IF rest = {} THEN NoStage ELSE crop_daily[Max(rest)].crop_stage

(* step 5 of delete: the stage of the latest record of the NFC code that is
   not deleted once daily_id is (the session flushes the delete before the
   query), or NULL *)
LatestActiveStage(nfc, daily_id) ==
    LET rest == {d \in DailyOfNfc(nfc) : crop_daily[d].crop_status # "deleted"} \ {daily_id}
    IN IF rest = {} THEN NoStage ELSE crop_daily[Max(rest)].crop_stage

soft_delete_today_daily_crop_by_nfc(tok, nfc_code) ==
    LET u == get_current_user(tok) IN
    IF u = NULL THEN Fail("soft_delete_today_daily_crop_by_nfc", 401)
    ELSE IF ActiveCropsByNfc(nfc_code) = {}
      THEN Fail("soft_delete_today_daily_crop_by_nfc", 404)
    ELSE LET c == CHOOSE x \in ActiveCropsByNfc(nfc_code) : TRUE IN
      IF ~OwnsFarm(u, crops[c].farm_id)
      THEN Fail("soft_delete_today_daily_crop_by_nfc", 403)
      ELSE IF Cardinality(TodaysDaily(nfc_code)) > 1
        THEN Fail("soft_delete_today_daily_crop_by_nfc", 500)
      ELSE IF TodaysDaily(nfc_code) = {}
        THEN Fail("soft_delete_today_daily_crop_by_nfc", 400)
      ELSE LET daily_crop == CHOOSE d \in TodaysDaily(nfc_code) : TRUE IN
        /\ crop_daily' = [crop_daily EXCEPT ![daily_crop].crop_status = "deleted"]
        /\ crops' = IF crops[c].crop_stage = crop_daily[daily_crop].crop_stage
                    THEN [crops EXCEPT ![c].crop_stage =
                                          LatestActiveStage(nfc_code, daily_crop)]
                    ELSE crops
        /\ Reply("soft_delete_today_daily_crop_by_nfc", 200)
        /\ UNCHANGED <<inflight, users, user_logins, farms, farm_expect, methods, harvest, expenses, today>>

(* the calendar day advances *)
NextDay ==
    /\ today < MaxDay
    /\ today' = today + 1
    /\ UNCHANGED <<db, resp, inflight>>

CreateDailyBodies == [nfc_code : NfcCodes, crop_stage : Stages]
UpdateDailyBodies == [crop_stage : Stages \cup {Unset}]

CreateDailyBy(tok) == \E b \in CreateDailyBodies : create_daily_crop(tok, b)
UpdateDailyBy(tok) ==
    \E nfc \in NfcCodes, b \in UpdateDailyBodies : update_latest_daily_crop(tok, nfc, b)
SoftDeleteDailyBy(tok) ==
    \E nfc \in NfcCodes : soft_delete_today_daily_crop_by_nfc(tok, nfc)

CreateDaily == \E tok \in Tokens : CreateDailyBy(tok)
UpdateDaily == \E tok \in Tokens : UpdateDailyBy(tok)
SoftDeleteDaily == \E tok \in Tokens : SoftDeleteDailyBy(tok)

(* crop 1 (NFC 1), active, on user 1's farm; crop 2 (NFC 2), terminated, on
   user 2's farm; NFC 3 is no crop *)
InitDaily ==
    /\ InitBase
    /\ crops = <<CropRow(1, 1, 1, NULL), Terminated(CropRow(2, 2, 1, NULL))>>

NextDaily == CreateDaily \/ UpdateDaily \/ SoftDeleteDaily \/ NextDay

SpecDaily == InitDaily /\ [][NextDaily]_vars

-----------------------------------------------------------------------------
(* routes/FarmCRUD.py and routes/ExpectationCRUD.py *)

MaxExpect == 2

(* the farm abbreviations the requests draw *)
Abbrevs == {1, 2}
(* farms 1 and 2 exist in every specification; farm 3 never does *)
FarmIds == {1, 2, 3}
ExpectIds == 1..MaxExpect

(* the route takes no current_user dependency and checks no owner *)
get_farm(tok, farm_id) ==
    IF farm_id \notin Ids(farms) THEN Fail("get_farm", 404)
    ELSE Fail("get_farm", 200)

(* select(FarmExpect).where(farm_id == f), whatever the record_status *)
ExpectsOfFarm(f) == {e \in Ids(farm_expect) : farm_expect[e].farm_id = f}

(* "except Exception" of update_farm catches the HTTPException raised in its
   try block, and MultipleResultsFound of scalar_one_or_none *)
update_farm_status(raised) == IF raised = 0 THEN 200 ELSE 500

(* the farm row after the setattr loop *)
ApplyFarmUpdate(row, farm_update) ==
    IF farm_update.farm_abbrev = NULL THEN row
    ELSE [row EXCEPT !.farm_abbrev = farm_update.farm_abbrev]

(* the FarmExpect rows after the second commit of update_farm *)
(* PropagateAbbrev as an update that also revives the row *)
PropagateAbbrev_Reviving(farm_id, abbrev) ==
    LET farm_expect_row == CHOOSE e \in ExpectsOfFarm(farm_id) : TRUE
    IN [farm_expect EXCEPT ![farm_expect_row].farm_abbrev = abbrev,
                           ![farm_expect_row].record_status = "active"]

PropagateAbbrev(farm_id, abbrev) ==
    LET farm_expect_row == CHOOSE e \in ExpectsOfFarm(farm_id) : TRUE
    IN [farm_expect EXCEPT ![farm_expect_row].farm_abbrev = abbrev]

update_farm(tok, farm_id, farm_update) ==
    LET u == get_current_user(tok) IN
    IF u = NULL THEN Fail("update_farm", 401)
    ELSE IF farm_id \notin Ids(farms) THEN Fail("update_farm", update_farm_status(404))
    ELSE IF farms[farm_id].user_id # u THEN Fail("update_farm", update_farm_status(403))
    ELSE LET is_farm_abbrev_updated ==
                 /\ farm_update.farm_abbrev # NULL
                 /\ farms[farm_id].farm_abbrev # farm_update.farm_abbrev
         IN
      (* first commit: the farm row *)
      /\ farms' = [farms EXCEPT ![farm_id] = ApplyFarmUpdate(@, farm_update)]
      /\ IF ~is_farm_abbrev_updated \/ ExpectsOfFarm(farm_id) = {}
         THEN farm_expect' = farm_expect /\ Reply("update_farm", update_farm_status(0))
         ELSE IF Cardinality(ExpectsOfFarm(farm_id)) > 1
           (* MultipleResultsFound after the first commit *)
           THEN farm_expect' = farm_expect /\ Reply("update_farm", update_farm_status(500))
         (* second commit: the FarmExpect row *)
         ELSE /\ farm_expect' = PropagateAbbrev(farm_id, farm_update.farm_abbrev)
              /\ Reply("update_farm", update_farm_status(0))
      /\ UNCHANGED <<inflight, users, user_logins, methods, crops, crop_daily, harvest, expenses, today>>

soft_delete_farm(tok, farm_id) ==
    LET u == get_current_user(tok) IN
    IF u = NULL THEN Fail("soft_delete_farm", 401)
    ELSE IF farm_id \notin Ids(farms) THEN Fail("soft_delete_farm", 404)
    ELSE IF farms[farm_id].user_id # u THEN Fail("soft_delete_farm", 403)
    (* scalar_one_or_none raises MultipleResultsFound: nothing was committed *)
    ELSE IF Cardinality(ExpectsOfFarm(farm_id)) > 1 THEN Fail("soft_delete_farm", 500)
    ELSE
      /\ farms' = [farms EXCEPT ![farm_id].farm_is_active = FALSE,
                                ![farm_id].farm_status = "terminated"]
      /\ farm_expect' = [e \in Ids(farm_expect) |->
                           IF e \in ExpectsOfFarm(farm_id)
                           THEN [farm_expect[e] EXCEPT !.record_status = "deleted"]
                           ELSE farm_expect[e]]
      /\ Reply("soft_delete_farm", 200)
      /\ UNCHANGED <<inflight, users, user_logins, methods, crops, crop_daily, harvest, expenses, today>>

ExpectRow(farm_id, farm_expect_body) ==
    [farm_id |-> farm_id, farm_abbrev |-> farms[farm_id].farm_abbrev,
     expected_income |-> farm_expect_body.expected_income, record_status |-> "active"]

create_farm_expect(tok, farm_id, farm_expect_body) ==
    LET u == get_current_user(tok) IN
    IF u = NULL THEN Fail("create_farm_expect", 401)
    ELSE IF farm_id \notin Ids(farms) THEN Fail("create_farm_expect", 404)
    ELSE IF farms[farm_id].user_id # u THEN Fail("create_farm_expect", 403)
    ELSE IF ~farms[farm_id].farm_is_active THEN Fail("create_farm_expect", 400)
    ELSE
      /\ Len(farm_expect) < MaxExpect
      /\ farm_expect' = Append(farm_expect, ExpectRow(farm_id, farm_expect_body))
      /\ Reply("create_farm_expect", 200)
      /\ UNCHANGED <<inflight, users, user_logins, farms, methods, crops, crop_daily, harvest, expenses, today>>

soft_delete_farm_expect(tok, farm_expect_id) ==
    LET u == get_current_user(tok) IN
    IF u = NULL THEN Fail("soft_delete_farm_expect", 401)
    ELSE IF farm_expect_id \notin Ids(farm_expect) THEN Fail("soft_delete_farm_expect", 404)
    ELSE IF ~OwnsFarm(u, farm_expect[farm_expect_id].farm_id)
      THEN Fail("soft_delete_farm_expect", 403)
    ELSE
      /\ farm_expect' = [farm_expect EXCEPT ![farm_expect_id].record_status = "deleted"]
      /\ Reply("soft_delete_farm_expect", 200)
      /\ UNCHANGED <<inflight, users, user_logins, farms, methods, crops, crop_daily, harvest, expenses, today>>

FarmUpdateBodies == [farm_abbrev : Abbrevs \cup {NULL}]
ExpectBodies == [expected_income : {100}]

GetFarmBy(tok) == \E f \in FarmIds : get_farm(tok, f)
UpdateFarmBy(tok) == \E f \in FarmIds, b \in FarmUpdateBodies : update_farm(tok, f, b)
SoftDeleteFarmBy(tok) == \E f \in FarmIds : soft_delete_farm(tok, f)
CreateFarmExpectBy(tok) ==
    \E f \in FarmIds, b \in ExpectBodies : create_farm_expect(tok, f, b)
SoftDeleteFarmExpectBy(tok) == \E e \in ExpectIds : soft_delete_farm_expect(tok, e)

GetFarm == \E tok \in Tokens : GetFarmBy(tok)
UpdateFarm == \E tok \in Tokens : UpdateFarmBy(tok)
SoftDeleteFarm == \E tok \in Tokens : SoftDeleteFarmBy(tok)
CreateFarmExpect == \E tok \in Tokens : CreateFarmExpectBy(tok)
SoftDeleteFarmExpect == \E tok \in Tokens : SoftDeleteFarmExpectBy(tok)

InitFarm ==
    /\ InitBase
    /\ crops = <<CropRow(1, 1, 1, NULL), Terminated(CropRow(2, 2, 1, NULL))>>

NextFarm ==
    \/ GetFarm \/ UpdateFarm \/ SoftDeleteFarm
    \/ CreateFarmExpect \/ SoftDeleteFarmExpect

SpecFarm == InitFarm /\ [][NextFarm]_vars

-----------------------------------------------------------------------------
(* routes/expensesCRUD.py *)

MaxExpenses == 2

(* the amounts the requests draw *)
Amounts == {10, 20}
ExpenseIds == 1..MaxExpenses

ExpenseRow(expense_data) ==
    [farm_id |-> expense_data.farm_id, amount |-> expense_data.amount,
     record_status |-> "active"]

create_expense(tok, expense_data) ==
    LET u == get_current_user(tok) IN
    IF u = NULL THEN Fail("create_expense", 401)
    ELSE IF expense_data.farm_id \notin Ids(farms) THEN Fail("create_expense", 404)
    ELSE IF farms[expense_data.farm_id].user_id # u THEN Fail("create_expense", 403)
    ELSE
      /\ Len(expenses) < MaxExpenses
      /\ expenses' = Append(expenses, ExpenseRow(expense_data))
      /\ Reply("create_expense", 200)
      /\ UNCHANGED <<inflight, users, user_logins, farms, farm_expect, methods, crops, crop_daily, harvest, today>>

(* select(Expense).join(Farm).where(expenses_id == id, record_status ==
   active, Farm.user_id == u) is non-empty *)
OwnActiveExpense(u, expense_id) ==
    /\ expense_id \in Ids(expenses)
    /\ expenses[expense_id].record_status = "active"
    /\ OwnsFarm(u, expenses[expense_id].farm_id)

get_expense(tok, expense_id) ==
    LET u == get_current_user(tok) IN
    IF u = NULL THEN Fail("get_expense", 401)
    ELSE IF ~OwnActiveExpense(u, expense_id) THEN Fail("get_expense", 404)
    ELSE Fail("get_expense", 200)

update_expense(tok, expense_id, update_data) ==
    LET u == get_current_user(tok) IN
    IF u = NULL THEN Fail("update_expense", 401)
    ELSE IF ~OwnActiveExpense(u, expense_id) THEN Fail("update_expense", 404)
    ELSE
      /\ expenses' = IF update_data.amount = NULL THEN expenses
                     ELSE [expenses EXCEPT ![expense_id].amount = update_data.amount]
      /\ Reply("update_expense", 200)
      /\ UNCHANGED <<inflight, users, user_logins, farms, farm_expect, methods, crops, crop_daily, harvest, today>>

delete_expense(tok, expense_id) ==
    LET u == get_current_user(tok) IN
    IF u = NULL THEN Fail("delete_expense", 401)
    ELSE IF ~(/\ expense_id \in Ids(expenses)
              /\ expenses[expense_id].record_status = "active")
      THEN Fail("delete_expense", 404)
    ELSE IF ~OwnsFarm(u, expenses[expense_id].farm_id) THEN Fail("delete_expense", 403)
    ELSE
      /\ expenses' = [expenses EXCEPT ![expense_id].record_status = "deleted"]
      /\ Reply("delete_expense", 200)
      /\ UNCHANGED <<inflight, users, user_logins, farms, farm_expect, methods, crops, crop_daily, harvest, today>>

ExpenseBodies == [farm_id : FarmIds, amount : Amounts]
ExpenseUpdateBodies == [amount : Amounts \cup {NULL}]

CreateExpenseBy(tok) == \E b \in ExpenseBodies : create_expense(tok, b)
GetExpenseBy(tok) == \E x \in ExpenseIds : get_expense(tok, x)
UpdateExpenseBy(tok) ==
    \E x \in ExpenseIds, b \in ExpenseUpdateBodies : update_expense(tok, x, b)
DeleteExpenseBy(tok) == \E x \in ExpenseIds : delete_expense(tok, x)

CreateExpense == \E tok \in Tokens : CreateExpenseBy(tok)
GetExpense == \E tok \in Tokens : GetExpenseBy(tok)
UpdateExpense == \E tok \in Tokens : UpdateExpenseBy(tok)
DeleteExpense == \E tok \in Tokens : DeleteExpenseBy(tok)

(* the farms, and the expense routes *)
NextExpense ==
    \/ CreateExpense \/ GetExpense \/ UpdateExpense \/ DeleteExpense
    \/ GetFarm \/ SoftDeleteFarm

SpecExpense == InitFarm /\ [][NextExpense]_vars

-----------------------------------------------------------------------------
(* routes/cropCRUD.py *)

MaxCrops == 2
MaxMethods == 2

(* method ids a request may name: the rows there can be, and one that is none *)
MethodIds == 1..(MaxMethods + 1)
(* other_method: a free text, or NULL when the body gives none *)
OtherMethods == {NULL, 1}

(* step 2 of create: the caller's active farms with the abbreviation *)
FarmsByAbbrev(u, abbrev) ==
    {f \in Ids(farms) : /\ farms[f].farm_abbrev = abbrev
                        /\ farms[f].user_id = u
                        /\ farms[f].farm_is_active}

(* step 3 of create, "Handle other_method" of update: the plant_method table
   after the flush *)
MethodsAfterOther(u, other_method) ==
    IF other_method # NULL THEN Append(methods, MethodRow(u)) ELSE methods

(* MethodIdToUse as a handler that keeps the method_id of the body *)
MethodIdToUse_Supplied(method_id, other_method) == method_id

(* method_id_to_use *)
MethodIdToUse(method_id, other_method) ==
    IF other_method # NULL THEN Len(methods) + 1 ELSE method_id

create_crop(tok, crop) ==
    LET u == get_current_user(tok)
        method_id_to_use == MethodIdToUse(crop.method_id, crop.other_method)
    IN
    IF u = NULL THEN Fail("create_crop", 401)
    ELSE IF CropsByNfc(crop.nfc_code) # {} THEN Fail("create_crop", 400)
    (* scalar_one_or_none raises MultipleResultsFound *)
    ELSE IF Cardinality(FarmsByAbbrev(u, crop.farm_abbrev)) > 1 THEN Fail("create_crop", 500)
    ELSE IF FarmsByAbbrev(u, crop.farm_abbrev) = {} THEN Fail("create_crop", 404)
    (* the commit violates the foreign key crops.method_id: IntegrityError *)
    ELSE IF method_id_to_use \notin Ids(MethodsAfterOther(u, crop.other_method))
      THEN Fail("create_crop", 500)
    ELSE LET farm == CHOOSE f \in FarmsByAbbrev(u, crop.farm_abbrev) : TRUE IN
      /\ Len(crops) < MaxCrops
      /\ Len(MethodsAfterOther(u, crop.other_method)) <= MaxMethods
      /\ methods' = MethodsAfterOther(u, crop.other_method)
      /\ crops' = Append(crops, CropRow(farm, crop.nfc_code, method_id_to_use,
                                        crop.last_harvest_date))
      /\ Reply("create_crop", 200)
      /\ UNCHANGED <<inflight, users, user_logins, farms, farm_expect, crop_daily, harvest, expenses, today>>

(* get_crop_by_nfc_code then verify_farm_ownership: the status raised, or 0 *)
CropAccess(u, nfc_code) ==
    IF CropsByNfc(nfc_code) = {} THEN 404
    ELSE IF ~OwnsFarm(u, crops[CropByNfc(nfc_code)].farm_id) THEN 403
    ELSE 0

get_crop(tok, nfc_code) ==
    LET u == get_current_user(tok) IN
    IF u = NULL THEN Fail("get_crop", 401)
    ELSE IF CropAccess(u, nfc_code) # 0 THEN Fail("get_crop", CropAccess(u, nfc_code))
    ELSE Fail("get_crop", 200)

(* "Method authorization" of update: the status raised, or 0 *)
MethodAccess(u, table, method_id) ==
    IF method_id \notin Ids(table) THEN 404
    ELSE IF /\ table[method_id].record_created_by # NULL
            /\ table[method_id].record_created_by # u
      THEN 403
    ELSE 0

(* the setattr loop of update *)
ApplyCropUpdate(row, method_id, crop_update) ==
    [row EXCEPT
       !.method_id = IF method_id = NULL THEN @ ELSE method_id,
       !.last_harvest_date = IF crop_update.last_harvest_date = Unset THEN @
                             ELSE crop_update.last_harvest_date]

(* update_crop as a handler that commits the PlantMethod where it flushes
   it, and does so before it looks at the crop *)
update_crop_CommitsMethodFirst(tok, nfc_code, crop_update) ==
    LET u == get_current_user(tok)
        flushed == MethodsAfterOther(u, crop_update.other_method)
        method_id == MethodIdToUse(crop_update.method_id, crop_update.other_method)
        raised == IF CropAccess(u, nfc_code) # 0 THEN CropAccess(u, nfc_code)
                  ELSE IF method_id # NULL THEN MethodAccess(u, flushed, method_id)
                  ELSE 0
    IN
    IF u = NULL THEN Fail("update_crop", 401)
    ELSE
      /\ Len(flushed) <= MaxMethods
      /\ methods' = flushed
      /\ crops' = IF raised # 0 THEN crops
                  ELSE [crops EXCEPT ![CropByNfc(nfc_code)] =
                                       ApplyCropUpdate(@, method_id, crop_update)]
      /\ Reply("update_crop", IF raised # 0 THEN raised ELSE 200)
      /\ UNCHANGED <<inflight, users, user_logins, farms, farm_expect, crop_daily, harvest, expenses, today>>

update_crop(tok, nfc_code, crop_update) ==
    LET u == get_current_user(tok)
        flushed == MethodsAfterOther(u, crop_update.other_method)
        (* updates["method_id"]; NULL when the body sets neither field *)
        method_id == MethodIdToUse(crop_update.method_id, crop_update.other_method)
    IN
    IF u = NULL THEN Fail("update_crop", 401)
    ELSE IF CropAccess(u, nfc_code) # 0 THEN Fail("update_crop", CropAccess(u, nfc_code))
    ELSE IF method_id # NULL /\ MethodAccess(u, flushed, method_id) # 0
      THEN Fail("update_crop", MethodAccess(u, flushed, method_id))
    ELSE
      /\ Len(flushed) <= MaxMethods
      /\ methods' = flushed
      /\ crops' = [crops EXCEPT ![CropByNfc(nfc_code)] =
                                   ApplyCropUpdate(@, method_id, crop_update)]
      /\ Reply("update_crop", 200)
      /\ UNCHANGED <<inflight, users, user_logins, farms, farm_expect, crop_daily, harvest, expenses, today>>

(* step 2 of delete: the other active crops that use the method *)
OtherCropsUsing(method_id, nfc_code) ==
    {c \in Ids(crops) : /\ crops[c].method_id = method_id
                        /\ crops[c].crop_is_active
                        /\ crops[c].nfc_code # nfc_code}

(* a variant of step 2 that does not look at the other crops: the method
   is marked deleted whoever else uses it *)
MethodsAfterCropDelete_Unshared(method_id, nfc_code) ==
    [methods EXCEPT ![method_id].record_status = "deleted"]

(* step 2 of delete: the plant_method table after it *)
MethodsAfterCropDelete(method_id, nfc_code) ==
    IF OtherCropsUsing(method_id, nfc_code) = {} /\ method_id \in Ids(methods)
    THEN [methods EXCEPT ![method_id].record_status = "deleted"]
    ELSE methods

soft_delete_crop(tok, nfc_code) ==
    LET u == get_current_user(tok) IN
    IF u = NULL THEN Fail("soft_delete_crop", 401)
    ELSE IF CropAccess(u, nfc_code) # 0
      THEN Fail("soft_delete_crop", CropAccess(u, nfc_code))
    ELSE LET c == CropByNfc(nfc_code) IN
      /\ crops' = [crops EXCEPT ![c] = Terminated(@)]
      /\ methods' = MethodsAfterCropDelete(crops[c].method_id, nfc_code)
      /\ Reply("soft_delete_crop", 200)
      /\ UNCHANGED <<inflight, users, user_logins, farms, farm_expect, crop_daily, harvest, expenses, today>>

(* a body that gives other_method has its method_id overwritten: one
   method_id stands for all of them *)
CropBodies ==
    {b \in [nfc_code : NfcCodes, farm_abbrev : Abbrevs, method_id : MethodIds,
            other_method : OtherMethods, last_harvest_date : {NULL}] :
       b.other_method # NULL => b.method_id = 1}
CropUpdateBodies ==
    {b \in [method_id : MethodIds \cup {NULL}, other_method : OtherMethods,
            last_harvest_date : {Unset}] :
       b.other_method # NULL => b.method_id = NULL}

CreateCropBy(tok) == \E b \in CropBodies : create_crop(tok, b)
GetCropBy(tok) == \E nfc \in NfcCodes : get_crop(tok, nfc)
UpdateCropBy(tok) == \E nfc \in NfcCodes, b \in CropUpdateBodies : update_crop(tok, nfc, b)
SoftDeleteCropBy(tok) == \E nfc \in NfcCodes : soft_delete_crop(tok, nfc)

CreateCrop == \E tok \in Tokens : CreateCropBy(tok)
GetCrop == \E tok \in Tokens : GetCropBy(tok)
UpdateCrop == \E tok \in Tokens : UpdateCropBy(tok)
SoftDeleteCrop == \E tok \in Tokens : SoftDeleteCropBy(tok)

(* no crop yet *)
InitCrop == InitBase /\ crops = <<>>

NextCrop == CreateCrop \/ GetCrop \/ UpdateCrop \/ SoftDeleteCrop

SpecCrop == InitCrop /\ [][NextCrop]_vars

-----------------------------------------------------------------------------
(* the harvest routes together with the farm update route *)

NextHarvestFarm == NextHarvest \/ UpdateFarm

SpecHarvestFarm == InitHarvest /\ [][NextHarvestFarm]_vars

-----------------------------------------------------------------------------
(* routes/FarmCRUD.py: update_farm by its two commits *)

MaxInflight == 2

(* update_farm up to its first commit and the refresh of farm_obj, for a
   request of the owner that changes farm_abbrev: the farm row is committed,
   the handler goes on to the FarmExpect row *)
update_farm_first_commit(tok, farm_id, farm_update) ==
    /\ get_current_user(tok) # NULL
    /\ OwnsFarm(get_current_user(tok), farm_id)
    /\ farm_update.farm_abbrev # NULL
    /\ farms[farm_id].farm_abbrev # farm_update.farm_abbrev
    /\ Cardinality(inflight) < MaxInflight
    /\ farms' = [farms EXCEPT ![farm_id] = ApplyFarmUpdate(@, farm_update)]
    /\ inflight' = inflight \cup {[route |-> "update_farm", farm_id |-> farm_id,
                                   farm_abbrev |-> farm_update.farm_abbrev]}
    /\ UNCHANGED <<users, user_logins, farm_expect, methods, crops, crop_daily,
                   harvest, expenses, today, resp>>

(* the rest of update_farm: the FarmExpect row read now, its farm_abbrev set
   to farm_obj.farm_abbrev, and the second commit *)
update_farm_second_commit(request) ==
    /\ request \in inflight
    /\ request.route = "update_farm"
    /\ inflight' = inflight \ {request}
    /\ IF ExpectsOfFarm(request.farm_id) = {}
       THEN farm_expect' = farm_expect /\ Reply("update_farm", update_farm_status(0))
       ELSE IF Cardinality(ExpectsOfFarm(request.farm_id)) > 1
         THEN farm_expect' = farm_expect /\ Reply("update_farm", update_farm_status(500))
       ELSE /\ farm_expect' = PropagateAbbrev(request.farm_id, request.farm_abbrev)
            /\ Reply("update_farm", update_farm_status(0))
    /\ UNCHANGED <<users, user_logins, farms, methods, crops, crop_daily, harvest,
                   expenses, today>>

(* the expectations are created and the farms deleted while renames are in
   flight *)
NextFarmCommits ==
    \/ CreateFarmExpect \/ SoftDeleteFarm
    \/ \E tok \in Tokens, f \in FarmIds, b \in FarmUpdateBodies :
         update_farm_first_commit(tok, f, b)
    \/ \E request \in inflight : update_farm_second_commit(request)

SpecFarmCommits == InitFarm /\ [][NextFarmCommits]_vars

-----------------------------------------------------------------------------
(* routes/login.py *)

MaxLogins == 3

(* the e-mail addresses and passwords the requests draw: user i registered
   with e-mail i and password i; nobody registered with UnknownEmail *)
UnknownEmail == 3
Emails == Users \cup {UnknownEmail}
Passwords == Users

(* select(User).filter(email == e).first() *)
UsersByEmail(email) == {u \in Ids(users) : users[u].email = email}

(* passlib verify against the stored hash *)
verify_password(plain_password, hashed_password) == plain_password = hashed_password

(* the status of the HTTPException login_user raises, or 0 *)
login_user_raises(login_data) ==
    IF UsersByEmail(login_data.email) = {} THEN 404
    ELSE IF ~verify_password(login_data.password,
                             users[Max(UsersByEmail(login_data.email))].password)
      THEN 401
    ELSE 0

(* login_timestamp defaults to func.now() at the insert: the rows are
   inserted one after the other, and the time of a row is its place *)
LoginRow(user_id) == [user_id |-> user_id, login_timestamp |-> Len(user_logins) + 1]

(* the handler from its first statement to its last, nothing in between *)
login_user(login_data) ==
    IF login_user_raises(login_data) # 0
    THEN Fail("login_user", login_user_raises(login_data))
    ELSE LET user == Max(UsersByEmail(login_data.email)) IN
      /\ Len(user_logins) < MaxLogins
      /\ user_logins' = Append(user_logins, LoginRow(user))
      /\ users' = [users EXCEPT ![user].last_login_date = LoginRow(user).login_timestamp]
      /\ Reply("login_user", 200)
      /\ UNCHANGED <<inflight, farms, farm_expect, methods, crops, crop_daily, harvest,
                     expenses, today>>

(* login_user up to its first commit and the refresh of new_login *)
login_user_first_commit(login_data) ==
    /\ login_user_raises(login_data) = 0
    /\ Len(user_logins) < MaxLogins
    /\ Cardinality(inflight) < MaxInflight
    /\ user_logins' = Append(user_logins, LoginRow(Max(UsersByEmail(login_data.email))))
    /\ inflight' = inflight \cup {[route |-> "login_user",
                                   user_id |-> Max(UsersByEmail(login_data.email)),
                                   login_id |-> Len(user_logins) + 1]}
    /\ UNCHANGED <<users, farms, farm_expect, methods, crops, crop_daily, harvest,
                   expenses, today, resp>>

(* the rest of login_user: last_login_date and the second commit *)
login_user_second_commit(request) ==
    /\ request \in inflight
    /\ request.route = "login_user"
    /\ inflight' = inflight \ {request}
    /\ users' = [users EXCEPT ![request.user_id].last_login_date =
                                 user_logins[request.login_id].login_timestamp]
    /\ Reply("login_user", 200)
    /\ UNCHANGED <<user_logins, farms, farm_expect, methods, crops, crop_daily,
                   harvest, expenses, today>>

LoginBodies == [email : Emails, password : Passwords]

InitLogin == InitBase /\ crops = <<>>

NextLogin ==
    \/ \E b \in LoginBodies : login_user(b)
    \/ \E b \in LoginBodies : login_user_first_commit(b)
    \/ \E request \in inflight : login_user_second_commit(request)

SpecLogin == InitLogin /\ [][NextLogin]_vars

-----------------------------------------------------------------------------
(* routes/cropCRUD.py: create_crop by its reads and its commit *)

(* create_crop to the point where it has read the crop of the NFC code and
   the farm: a request that raises is answered, one that does not goes on to
   its inserts and its commit *)
create_crop_begin(tok, crop) ==
    LET u == get_current_user(tok) IN
    IF u = NULL THEN Fail("create_crop", 401)
    ELSE IF CropsByNfc(crop.nfc_code) # {} THEN Fail("create_crop", 400)
    ELSE IF Cardinality(FarmsByAbbrev(u, crop.farm_abbrev)) > 1 THEN Fail("create_crop", 500)
    ELSE IF FarmsByAbbrev(u, crop.farm_abbrev) = {} THEN Fail("create_crop", 404)
    ELSE
      /\ Cardinality(inflight) < MaxInflight
      /\ inflight' = inflight \cup
           {[route |-> "create_crop", user_id |-> u, crop |-> crop,
             farm_id |-> CHOOSE f \in FarmsByAbbrev(u, crop.farm_abbrev) : TRUE]}
      /\ UNCHANGED <<db, today, resp>>

(* the inserts of create_crop and its commit: the unique index on nfc_code
   and the foreign key on method_id are checked against the rows committed
   by now, and a violation (IntegrityError, not handled) rolls the
   transaction back, the flushed PlantMethod with it *)
create_crop_commit(request) ==
    LET crop == request.crop
        flushed == MethodsAfterOther(request.user_id, crop.other_method)
        method_id_to_use == MethodIdToUse(crop.method_id, crop.other_method)
    IN
    /\ request \in inflight
    /\ request.route = "create_crop"
    /\ inflight' = inflight \ {request}
    /\ IF CropsByNfc(crop.nfc_code) # {} \/ method_id_to_use \notin Ids(flushed)
       THEN Reply("create_crop", 500) /\ UNCHANGED <<db, today>>
       ELSE
         /\ Len(crops) < MaxCrops
         /\ Len(flushed) <= MaxMethods
         /\ methods' = flushed
         /\ crops' = Append(crops, CropRow(request.farm_id, crop.nfc_code,
                                           method_id_to_use, crop.last_harvest_date))
         /\ Reply("create_crop", 200)
         /\ UNCHANGED <<users, user_logins, farms, farm_expect, crop_daily, harvest,
                        expenses, today>>

(* two NFC codes are enough for two creates to meet on one *)
CropRaceBodies == {b \in CropBodies : b.nfc_code \in {1, 2}}

NextCropRace ==
    \/ \E tok \in Tokens, b \in CropRaceBodies : create_crop_begin(tok, b)
    \/ \E request \in inflight : create_crop_commit(request)

SpecCropRace == InitCrop /\ [][NextCropRace]_vars

-----------------------------------------------------------------------------
(* routes/harvest.py with both harvest units and every estimated_kg *)

(* estimated_kg: Optional[dp4], no lower bound in the schema *)
EstimatedKgs == {KgNull, 0, 1}

UnitHarvestBodies ==
    [nfc_code : {1}, harvest_unit : HarvestUnitEnum, estimated_kg : EstimatedKgs,
     harvest_date : {Midnight(d) : d \in Days}]
UnitUpdateBodies ==
    [harvest_unit : HarvestUnitEnum \cup {Unset},
     estimated_kg : EstimatedKgs \cup {KgUnset}, harvest_date : {NULL}]

NextHarvestUnit ==
    \/ \E tok \in Tokens, b \in UnitHarvestBodies : create_harvest_from_nfc(tok, b)
    \/ \E tok \in Tokens, id \in HarvestIds, b \in UnitUpdateBodies :
         update_harvest(tok, 1, id, b)
    \/ SoftDeleteHarvest

SpecHarvestUnit == InitHarvest /\ [][NextHarvestUnit]_vars

-----------------------------------------------------------------------------
(* routes/dailyCrop.py: create_daily_crop by its reads and its commit *)

(* steps 1 and 2 of create_daily_crop: a request that raises is answered, one
   that does not goes on with the crop it read *)
create_daily_crop_begin(daily_crop) ==
    IF ActiveCropsByNfc(daily_crop.nfc_code) = {} THEN Fail("create_daily_crop", 404)
    ELSE IF Cardinality(ExistingDaily(daily_crop.nfc_code)) > 1
      THEN Fail("create_daily_crop", 500)
    ELSE IF ExistingDaily(daily_crop.nfc_code) # {} THEN Fail("create_daily_crop", 400)
    ELSE LET c == CHOOSE x \in ActiveCropsByNfc(daily_crop.nfc_code) : TRUE IN
      /\ Cardinality(inflight) < MaxInflight
      /\ inflight' = inflight \cup
           {[route |-> "create_daily_crop", crop_id |-> c, daily_crop |-> daily_crop,
             crop_stage |-> crops[c].crop_stage]}
      /\ UNCHANGED <<db, today, resp>>

(* steps 3 to 5: CropDaily has no unique constraint, the commit goes through
   whatever was committed since the reads; step 4 compares with the
   crop_stage the request read *)
create_daily_crop_commit(request) ==
    /\ request \in inflight
    /\ request.route = "create_daily_crop"
    /\ Len(crop_daily) < MaxDaily
    /\ inflight' = inflight \ {request}
    /\ crop_daily' = Append(crop_daily, DailyRow(request.crop_id, request.daily_crop))
    /\ crops' = IF request.crop_stage # request.daily_crop.crop_stage
                THEN [crops EXCEPT ![request.crop_id].crop_stage =
                                       request.daily_crop.crop_stage]
                ELSE crops
    /\ Reply("create_daily_crop", 200)
    /\ UNCHANGED <<users, user_logins, farms, farm_expect, methods, harvest, expenses, today>>

NextDailyRace ==
    \/ \E b \in CreateDailyBodies : create_daily_crop_begin(b)
    \/ \E request \in inflight : create_daily_crop_commit(request)
    \/ SoftDeleteDaily
    \/ NextDay

SpecDailyRace == InitDaily /\ [][NextDailyRace]_vars

-----------------------------------------------------------------------------
(* the routes that keep a status or a derived field, together *)

(* as InitHarvest, but user 1 created crop 1 with an other_method, which
   became method 2 *)
InitRetry ==
    /\ users = [i \in Users |-> UserRow(i)]
    /\ user_logins = <<>>
    /\ inflight = {}
    /\ farms = <<FarmRow(1, 1), FarmRow(2, 2)>>
    /\ farm_expect = <<>>
    /\ methods = <<MethodRow(NULL), MethodRow(1)>>
    /\ crops = <<CropRow(1, 1, 2, NULL), Terminated(CropRow(2, 2, 1, NULL))>>
    /\ crop_daily = <<>>
    /\ harvest = <<>>
    /\ expenses = <<>>
    /\ today = 1
    /\ resp = InitResp

(* the requests of the two users on farm 1 and its crop *)
NextRetry ==
    \/ \E tok \in Users, b \in CreateHarvestBodies :
         b.nfc_code = 1 /\ create_harvest_from_nfc(tok, b)
    \/ \E tok \in Users, id \in HarvestIds, b \in UpdateHarvestBodies :
         update_harvest(tok, 1, id, b)
    \/ \E tok \in Users, id \in HarvestIds : soft_delete_harvest(tok, id)
    \/ \E tok \in Users : soft_delete_crop(tok, 1)
    \/ \E tok \in Users, b \in ExpectBodies : create_farm_expect(tok, 1, b)
    \/ \E tok \in Users : soft_delete_farm(tok, 1)

SpecRetry == InitRetry /\ [][NextRetry]_vars

-----------------------------------------------------------------------------
(* routes/harvest.py: soft_delete_harvest by its reads and its commit *)

(* steps 1 to 5 of soft_delete_harvest: a request that raises or finds the
   row deleted is answered; one that does not has decided what it writes.
   The flush leaves out an attribute set to the value it was loaded with, so
   last_harvest_date is written only when the value decided differs from the
   value read *)
soft_delete_harvest_begin(tok, harvest_id) ==
    LET u == get_current_user(tok) IN
    IF u = NULL THEN Fail("soft_delete_harvest", 401)
    ELSE IF harvest_id \notin Ids(harvest) THEN Fail("soft_delete_harvest", 404)
    ELSE IF harvest[harvest_id].record_status = "deleted"
      THEN Fail("soft_delete_harvest", 200)
    ELSE IF ~OwnsFarm(u, harvest[harvest_id].farm_id) THEN Fail("soft_delete_harvest", 403)
    ELSE IF CropsByNfc(harvest[harvest_id].nfc_code) = {} THEN Fail("soft_delete_harvest", 404)
    ELSE LET c == CropByNfc(harvest[harvest_id].nfc_code) IN
      /\ Cardinality(inflight) < MaxInflight
      /\ inflight' = inflight \cup
           {[route |-> "soft_delete_harvest", harvest_id |-> harvest_id, crop_id |-> c,
             last_harvest_date |-> LastHarvestDateAfterDelete(crops[c], harvest_id),
             is_modified |-> LastHarvestDateAfterDelete(crops[c], harvest_id)
                               # crops[c].last_harvest_date]}
      /\ UNCHANGED <<db, today, resp>>

(* steps 6 and 7: the row updates of the commit *)
soft_delete_harvest_commit(request) ==
    /\ request \in inflight
    /\ request.route = "soft_delete_harvest"
    /\ inflight' = inflight \ {request}
    /\ harvest' = [harvest EXCEPT ![request.harvest_id].record_status = "deleted"]
    /\ crops' = IF request.is_modified
                THEN [crops EXCEPT ![request.crop_id].last_harvest_date =
                                       request.last_harvest_date]
                ELSE crops
    /\ Reply("soft_delete_harvest", 200)
    /\ UNCHANGED <<users, user_logins, farms, farm_expect, methods, crop_daily, expenses, today>>

NextHarvestRace ==
    \/ \E tok \in Users, b \in CreateHarvestBodies : create_harvest_from_nfc(tok, b)
    \/ \E tok \in Users, id \in HarvestIds : soft_delete_harvest(tok, id)
    \/ \E tok \in Tokens, id \in HarvestIds : soft_delete_harvest_begin(tok, id)
    \/ \E request \in inflight : soft_delete_harvest_commit(request)

SpecHarvestRace == InitHarvest /\ [][NextHarvestRace]_vars

-----------------------------------------------------------------------------
(* routes/cropCRUD.py: soft_delete_crop by its reads and its commit *)

(* soft_delete_crop to the query for the other active crops of the method:
   a request that raises is answered, one that does not has decided whether
   it marks the method deleted *)
soft_delete_crop_begin(tok, nfc_code) ==
    LET u == get_current_user(tok) IN
    IF u = NULL THEN Fail("soft_delete_crop", 401)
    ELSE IF CropAccess(u, nfc_code) # 0
      THEN Fail("soft_delete_crop", CropAccess(u, nfc_code))
    ELSE LET c == CropByNfc(nfc_code) IN
      /\ Cardinality(inflight) < MaxInflight
      /\ inflight' = inflight \cup
           {[route |-> "soft_delete_crop", crop_id |-> c,
             method_id |-> crops[c].method_id,
             method_deleted |-> MethodsAfterCropDelete(crops[c].method_id, nfc_code)
                                  # methods]}
      /\ UNCHANGED <<db, today, resp>>

(* the row updates of the commit *)
soft_delete_crop_commit(request) ==
    /\ request \in inflight
    /\ request.route = "soft_delete_crop"
    /\ inflight' = inflight \ {request}
    /\ crops' = [crops EXCEPT ![request.crop_id] = Terminated(@)]
    /\ methods' = IF request.method_deleted
                  THEN [methods EXCEPT ![request.method_id].record_status = "deleted"]
                  ELSE methods
    /\ Reply("soft_delete_crop", 200)
    /\ UNCHANGED <<users, user_logins, farms, farm_expect, crop_daily, harvest, expenses, today>>

NextCropDeleteRace ==
    \/ \E tok \in Users, b \in CropRaceBodies : create_crop(tok, b)
    \/ \E tok \in Tokens, nfc \in NfcCodes : soft_delete_crop_begin(tok, nfc)
    \/ \E request \in inflight : soft_delete_crop_commit(request)

SpecCropDeleteRace == InitCrop /\ [][NextCropDeleteRace]_vars

-----------------------------------------------------------------------------
(* CLAIMS *)

MaxActiveHarvestDate(c) ==
    LET active == {h \in Ids(harvest) : /\ harvest[h].crop_id = c
                                        /\ harvest[h].record_status = "active"}
    IN IF active = {} THEN NULL ELSE Max(HarvestDates(active))

(* C1: after any sequence of successful harvest create, update and soft-delete
   requests, every crop's last_harvest_date is the greatest harvest_date of
   its active harvests, and NULL when it has none. *)
C1_LastHarvestDateIsMax ==
    \A c \in Ids(crops) : crops[c].last_harvest_date = MaxActiveHarvestDate(c)

(* the caller owns the farm of the active crop the body names *)
MayHarvest(tok, nfc) ==
    /\ get_current_user(tok) # NULL
    /\ CropsByNfc(nfc) # {}
    /\ crops[CropByNfc(nfc)].crop_status = "active"
    /\ OwnsFarm(get_current_user(tok), crops[CropByNfc(nfc)].farm_id)

SameDayHarvest(nfc, dt) ==
    \E h \in ActiveHarvests(nfc) : DateOf(harvest[h].harvest_date) = DateOf(dt)

(* C9: a harvest create for an NFC code that already has an active harvest on
   the same calendar date is answered 400 or 409 and leaves the harvest table
   and the crop table as they were; on another calendar date it succeeds. *)
C9_SameDayHarvestConflict ==
    [][\A tok \in Tokens, b \in CreateHarvestBodies :
         (create_harvest_from_nfc(tok, b) /\ MayHarvest(tok, b.nfc_code))
         => IF SameDayHarvest(b.nfc_code, b.harvest_date)
            THEN resp'.status \in {400, 409} /\ harvest' = harvest /\ crops' = crops
            ELSE resp'.status = 200 /\ Len(harvest') = Len(harvest) + 1]_vars

(* the stage of the latest record of crop c that is not deleted, or NULL *)
LatestNonDeletedStage(c) ==
    LET live == {d \in Ids(crop_daily) : /\ crop_daily[d].crop_id = c
                                         /\ crop_daily[d].crop_status # "deleted"}
    IN IF live = {} THEN NoStage ELSE crop_daily[Max(live)].crop_stage

(* C2: after any sequence of successful crop-daily create, update and
   soft-delete requests, every crop's crop_stage is the crop_stage of its
   latest CropDaily record that is not deleted, and NULL when it has none. *)
C2_CropStageMirrorsLatestDaily ==
    \A c \in Ids(crops) : crops[c].crop_stage = LatestNonDeletedStage(c)


(* the answer the farm soft-delete of an owner must get, and the rows it
   must leave *)
FarmDeleted(f) ==
    /\ resp'.status = 200
    /\ ~farms'[f].farm_is_active
    /\ farms'[f].farm_status = "terminated"
    /\ \A e \in Ids(farm_expect') :
         farm_expect'[e].farm_id = f => farm_expect'[e].record_status = "deleted"

NoActiveExpectOnTerminatedFarm ==
    \A e \in Ids(farm_expect) :
      farms[farm_expect[e].farm_id].farm_status = "terminated"
        => farm_expect[e].record_status # "active"

(* C3: the soft-delete of a farm by its owner succeeds whether the farm has
   zero, one or several FarmExpect records, terminates the farm and marks
   every FarmExpect record of the farm deleted; and in no state is a farm
   terminated while one of its FarmExpect records is active. *)
C3_FarmDeleteCascades ==
    /\ [][\A tok \in Users, f \in FarmIds :
            (soft_delete_farm(tok, f) /\ OwnsFarm(tok, f)) => FarmDeleted(f)]_vars
    /\ []NoActiveExpectOnTerminatedFarm

(* the answers C4 asks of a route on a farm, a crop and an expense *)
FarmAnswer(tok, f) ==
    /\ f \notin Ids(farms) => resp'.status = 404
    /\ (f \in Ids(farms) /\ farms[f].user_id # tok) => resp'.status = 403
CropAnswer(tok, nfc) ==
    /\ CropsByNfc(nfc) = {} => resp'.status = 404
    /\ (CropsByNfc(nfc) # {} /\ ~OwnsFarm(tok, crops[CropByNfc(nfc)].farm_id))
         => resp'.status = 403
ExpenseAnswer(tok, x) ==
    /\ x \notin Ids(expenses) => resp'.status = 404
    /\ (/\ x \in Ids(expenses)
        /\ expenses[x].record_status = "active"
        /\ ~OwnsFarm(tok, expenses[x].farm_id)) => resp'.status = 403

(* C4: every read, update and delete route of farms, crops and expenses
   answers 404 when the entity does not exist and 403 when it exists and
   belongs to another user than the caller. *)
C4_ForbiddenOrNotFound ==
    [][\A tok \in Users :
         /\ \A f \in FarmIds :
              (\/ get_farm(tok, f)
               \/ \E b \in FarmUpdateBodies : update_farm(tok, f, b)
               \/ soft_delete_farm(tok, f)) => FarmAnswer(tok, f)
         /\ \A nfc \in NfcCodes :
              (\/ get_crop(tok, nfc)
               \/ \E b \in CropUpdateBodies : update_crop(tok, nfc, b)
               \/ soft_delete_crop(tok, nfc)) => CropAnswer(tok, nfc)
         /\ \A x \in ExpenseIds :
              (\/ get_expense(tok, x)
               \/ \E b \in ExpenseUpdateBodies : update_expense(tok, x, b)
               \/ delete_expense(tok, x)) => ExpenseAnswer(tok, x)]_vars

(* a request of any route, sent with token tok *)
RequestBy(tok) ==
    \/ CreateHarvestBy(tok) \/ UpdateHarvestBy(tok) \/ SoftDeleteHarvestBy(tok)
    \/ CreateDailyBy(tok) \/ UpdateDailyBy(tok) \/ SoftDeleteDailyBy(tok)
    \/ GetFarmBy(tok) \/ UpdateFarmBy(tok) \/ SoftDeleteFarmBy(tok)
    \/ CreateFarmExpectBy(tok) \/ SoftDeleteFarmExpectBy(tok)
    \/ CreateExpenseBy(tok) \/ GetExpenseBy(tok) \/ UpdateExpenseBy(tok)
    \/ DeleteExpenseBy(tok)
    \/ CreateCropBy(tok) \/ GetCropBy(tok) \/ UpdateCropBy(tok) \/ SoftDeleteCropBy(tok)

(* the rows of a table, with their ids, that satisfy Owned *)
RowsOf(table, Owned(_)) == {<<i, table[i]>> : i \in {j \in Ids(table) : Owned(j)}}

(* the ownership chain of user u: u's farms, the rows under them, and the
   planting methods u created *)
OwnershipChain(u) ==
    LET mine(f) == OwnsFarm(u, f)
        on_farm(i) == mine(crops[i].farm_id)
        of_crop(i) == mine(crops[crop_daily[i].crop_id].farm_id)
        harvested(i) == mine(harvest[i].farm_id)
        spent(i) == mine(expenses[i].farm_id)
        expected(i) == mine(farm_expect[i].farm_id)
        created(i) == methods[i].record_created_by = u
    IN <<RowsOf(farms, mine), RowsOf(crops, on_farm), RowsOf(crop_daily, of_crop),
         RowsOf(harvest, harvested), RowsOf(expenses, spent),
         RowsOf(farm_expect, expected), RowsOf(methods, created)>>

(* C5: whatever request user A sends, with A's token or with none, the rows
   of another user B's ownership chain (B's farms, the crops, crop-daily
   records, harvests, expenses and expectations under them, the planting
   methods B created) keep their values. *)
C5_NonInterference ==
    [][\A A \in Users, B \in Users :
         (A # B /\ (RequestBy(A) \/ RequestBy(NoToken)))
           => OwnershipChain(B)' = OwnershipChain(B)]_vars

(* C6: a request of any protected route that carries no token or an invalid
   token is answered 401 and changes no table. *)
C6_UnauthorizedWithoutToken ==
    [][\A tok \in {NoToken, BadToken} :
         RequestBy(tok) => (resp'.status = 401 /\ db' = db)]_vars


(* the active crops that reference method m *)
ActiveCropsOfMethod(m) ==
    {c \in Ids(crops) : crops[c].method_id = m /\ crops[c].crop_is_active}

UserCreated(m) == m \in Ids(methods) /\ methods[m].record_created_by # NULL

(* C7: a successful soft-delete of the only active crop that references a
   user-created planting method sets the method's record_status to deleted;
   a successful soft-delete of one of two (or more) active crops that
   reference the same user-created, active method leaves the method active. *)
C7_MethodFollowsLastCrop ==
    [][resp'.route = "soft_delete_crop" =>
       \A tok \in Users, nfc \in NfcCodes :
         (/\ soft_delete_crop(tok, nfc)
          /\ CropAccess(tok, nfc) = 0
          /\ crops[CropByNfc(nfc)].crop_is_active
          /\ UserCreated(crops[CropByNfc(nfc)].method_id))
         => LET c == CropByNfc(nfc)
                m == crops[c].method_id
            IN /\ resp'.status = 200
               /\ ~crops'[c].crop_is_active
               /\ ActiveCropsOfMethod(m) = {c}
                    => methods'[m].record_status = "deleted"
               /\ (ActiveCropsOfMethod(m) # {c} /\ methods[m].record_status = "active")
                    => methods'[m].record_status = "active"]_vars

(* one of two active crops of a user-created method was soft-deleted, and the
   method is active *)
C7_Witness ==
    /\ resp = [route |-> "soft_delete_crop", status |-> 200]
    /\ \E m \in Ids(methods) :
         /\ UserCreated(m)
         /\ methods[m].record_status = "active"
         /\ ActiveCropsOfMethod(m) # {}
         /\ \E c \in Ids(crops) : crops[c].method_id = m /\ ~crops[c].crop_is_active

(* the planting method of a body is one that another user created *)
ForeignMethod(tok, method_id) ==
    /\ method_id \in Ids(methods)
    /\ methods[method_id].record_created_by \notin {NULL, tok}
GlobalMethod(method_id) ==
    method_id \in Ids(methods) /\ methods[method_id].record_created_by = NULL

(* the body of a crop create passes the NFC and farm look-ups *)
MayCreateCrop(tok, b) ==
    /\ CropsByNfc(b.nfc_code) = {}
    /\ Cardinality(FarmsByAbbrev(tok, b.farm_abbrev)) = 1

(* C8: a crop create and a crop update that name the planting method of
   another user are answered 403 and leave the crop table as it was; with a
   method that has no creator they are accepted, whoever the caller is. *)
C8_PrivateMethodOnlyForCreator ==
    [][\A tok \in Users :
         /\ \A b \in CropBodies :
              (create_crop(tok, b) /\ MayCreateCrop(tok, b) /\ b.other_method = NULL)
              => /\ ForeignMethod(tok, b.method_id)
                      => (resp'.status = 403 /\ crops' = crops)
                 /\ GlobalMethod(b.method_id) => resp'.status = 200
         /\ \A nfc \in NfcCodes, b \in CropUpdateBodies :
              (update_crop(tok, nfc, b) /\ CropAccess(tok, nfc) = 0
                 /\ b.other_method = NULL)
              => /\ ForeignMethod(tok, b.method_id)
                      => (resp'.status = 403 /\ crops' = crops)
                 /\ GlobalMethod(b.method_id) => resp'.status = 200]_vars

(* the request asks for a harvest that a domain rule forbids *)
HarvestViolation(tok, b) ==
    \/ CropsByNfc(b.nfc_code) = {}
    \/ crops[CropByNfc(b.nfc_code)].crop_status # "active"
    \/ ~OwnsFarm(tok, crops[CropByNfc(b.nfc_code)].farm_id)
    \/ SameDayHarvest(b.nfc_code, b.harvest_date)

ClientKinds == {400, 403, 404, 409}

(* C10: a request that fails because the entity is missing, the caller is
   not the owner, the crop is not active or the harvest of the day exists is
   answered 404, 403, 400 or 409, never 500: so for the harvest create, and
   so for the farm update. *)
C10_DomainViolationNever500 ==
    [][\A tok \in Users :
         /\ \A b \in CreateHarvestBodies :
              (create_harvest_from_nfc(tok, b) /\ HarvestViolation(tok, b))
              => resp'.status \in ClientKinds
         /\ \A f \in FarmIds, b \in FarmUpdateBodies :
              (update_farm(tok, f, b) /\ ~OwnsFarm(tok, f))
              => resp'.status \in ClientKinds]_vars


(* the FarmExpect rows of farm f carry the farm's abbreviation *)
CopiesAgree(f) ==
    \A e \in Ids(farm_expect) :
      farm_expect[e].farm_id = f => farm_expect[e].farm_abbrev = farms[f].farm_abbrev

(* C11: after a farm update of the owner that changes farm_abbrev, every
   FarmExpect record of the farm (there may be none, one or several) carries
   the new farm_abbrev; an update that leaves farm_abbrev as it was changes no
   FarmExpect record. *)
C11_AbbrevPropagates ==
    [][resp'.route = "update_farm" =>
       \A tok \in Users, f \in FarmIds, b \in FarmUpdateBodies :
         (update_farm(tok, f, b) /\ OwnsFarm(tok, f))
         => IF farms'[f].farm_abbrev # farms[f].farm_abbrev
            THEN CopiesAgree(f)'
            ELSE farm_expect' = farm_expect]_vars


(* C12: the rename of a farm is all-or-nothing: in no committed state does a
   farm carry one abbreviation and a FarmExpect record of that farm
   another. *)
C12_RenameIsAtomic == \A f \in Ids(farms) : CopiesAgree(f)


(* the login rows of user u *)
LoginsOf(u) == {l \in Ids(user_logins) : user_logins[l].user_id = u}

(* last_login_date of every user is the login_timestamp of the user's latest
   Login row, and NULL when the user has none *)
LastLoginIsLatestRow ==
    \A u \in Ids(users) :
      users[u].last_login_date =
        IF LoginsOf(u) = {} THEN NULL ELSE user_logins[Max(LoginsOf(u))].login_timestamp

(* C13: the Login row of a successful login and the user's last_login_date
   are written together: in no committed state is there a Login row whose
   login_timestamp the user's last_login_date does not yet hold; and a login
   with an unknown e-mail or a wrong password appends no Login row and leaves
   the users as they were. *)
C13_LoginIsAtomic ==
    /\ []LastLoginIsLatestRow
    /\ [][\A b \in LoginBodies :
            (login_user(b) /\ login_user_raises(b) # 0)
            => (user_logins' = user_logins /\ users' = users)]_vars


UniqueNfc ==
    \A c1, c2 \in Ids(crops) : crops[c1].nfc_code = crops[c2].nfc_code => c1 = c2

(* the answer C14 asks for a duplicate *)
DuplicateRejected ==
    resp'.status \in {400, 409} /\ crops' = crops /\ methods' = methods

(* C14: no two crops, terminated ones included, carry the same nfc_code; a
   crop create whose nfc_code a crop already carries is answered 400 or 409
   and writes no crop and no planting method, whether the other crop was
   there when the request read the table or was committed by a concurrent
   create before this one committed. *)
C14_NfcCodeIsUnique ==
    /\ []UniqueNfc
    /\ [][resp'.route = "create_crop" =>
          /\ \A tok \in Users, b \in CropRaceBodies :
               (create_crop_begin(tok, b) /\ CropsByNfc(b.nfc_code) # {})
               => DuplicateRejected
          /\ \A request \in inflight :
               (create_crop_commit(request) /\ CropsByNfc(request.crop.nfc_code) # {})
               => DuplicateRejected]_vars


MissingKg(row) == row.harvest_unit = "unit" /\ row.estimated_kg \in {KgNull, 0}

UnitHarvestsHaveKg ==
    \A h \in Ids(harvest) : harvest[h].record_status = "active" => ~MissingKg(harvest[h])

(* the answer C15 asks for *)
ValidationErrorNoWrite ==
    resp'.status \in {400, 422} /\ harvest' = harvest /\ crops' = crops

(* C15: every active harvest of unit 'unit' has an estimated_kg that is
   present and not zero; a create whose body is such a harvest without it,
   and an update after which the harvest it names would be one, are answered
   with a validation error (422, or the 400 the create raises) and write
   nothing. The requests meant are those that pass authentication, lookup
   and ownership. *)
C15_UnitHarvestNeedsEstimatedKg ==
    /\ []UnitHarvestsHaveKg
    /\ [][/\ \A tok \in Users, b \in UnitHarvestBodies :
               (/\ create_harvest_from_nfc(tok, b)
                /\ MissingKg(b)
                /\ create_harvest_raises(tok, [b EXCEPT !.estimated_kg = 1]) = 0)
               => ValidationErrorNoWrite
          /\ \A tok \in Users, id \in HarvestIds, b \in UnitUpdateBodies :
               (/\ update_harvest(tok, 1, id, b)
                /\ resp'.status \notin {401, 403, 404}
                /\ MissingKg(ApplyHarvestUpdate(harvest[id], b)))
               => ValidationErrorNoWrite]_vars


OneActiveDailyPerDay ==
    \A d1, d2 \in Ids(crop_daily) :
      (/\ crop_daily[d1].crop_id = crop_daily[d2].crop_id
       /\ crop_daily[d1].record_created_date = crop_daily[d2].record_created_date
       /\ crop_daily[d1].crop_status = "active"
       /\ crop_daily[d2].crop_status = "active") => d1 = d2

(* C16: a crop has at most one active CropDaily record per calendar day; a
   crop-daily create for a crop that has an active record of the current day
   is answered with an error and writes nothing, whether that record was
   there when the request read the table or was committed by a concurrent
   create before this one committed. *)
C16_OneActiveDailyPerDay ==
    /\ []OneActiveDailyPerDay
    /\ [][resp'.route = "create_daily_crop" =>
          /\ \A b \in CreateDailyBodies :
               (create_daily_crop_begin(b) /\ ExistingDaily(b.nfc_code) # {})
               => (resp'.status >= 400 /\ crop_daily' = crop_daily /\ crops' = crops)
          /\ \A request \in inflight :
               (/\ create_daily_crop_commit(request)
                /\ ExistingDaily(request.daily_crop.nfc_code) # {})
               => (resp'.status >= 400 /\ crop_daily' = crop_daily /\ crops' = crops)]_vars


(* C17: a create of a child record under a farm that is not active is
   answered 400 and creates nothing. Stated for the Expense child: the caller
   owns the farm, the farm exists and is terminated. *)
C17_NoChildUnderInactiveFarm ==
    [][resp'.route = "create_expense" =>
       \A tok \in Users, b \in ExpenseBodies :
         (/\ create_expense(tok, b)
          /\ b.farm_id \in Ids(farms)
          /\ OwnsFarm(tok, b.farm_id)
          /\ ~farms[b.farm_id].farm_is_active)
         => (resp'.status = 400 /\ expenses' = expenses)]_vars


(* C18: FarmExpect is append-only. In every step each FarmExpect row stays
   in the table with the farm_id and the forecast it was created with (the
   model carries expected_income for the three forecast columns, which the
   code writes together and only in the create); its record_status changes
   only from active to deleted. Only farm_abbrev may change otherwise. *)
C18_FarmExpectAppendOnly ==
    [][\A e \in Ids(farm_expect) :
         /\ e \in Ids(farm_expect')
         /\ farm_expect'[e].farm_id = farm_expect[e].farm_id
         /\ farm_expect'[e].expected_income = farm_expect[e].expected_income
         /\ (farm_expect[e].record_status = "deleted"
             => farm_expect'[e].record_status = "deleted")]_vars

(* a deleted FarmExpect row that a later rename of its farm has reached:
   farms 1 and 2 start with the abbreviations 1 and 2, and the copy is the
   other one *)
C18_Witness ==
    /\ resp = [route |-> "update_farm", status |-> 200]
    /\ \E e \in Ids(farm_expect) :
         /\ farm_expect[e].record_status = "deleted"
         /\ farm_expect[e].farm_abbrev # farm_expect[e].farm_id
         /\ farm_expect[e].farm_abbrev = farms[farm_expect[e].farm_id].farm_abbrev


(* the request, issued again in this state, would change a table *)
RetryChanges_soft_delete_harvest(tok, id) ==
    ENABLED (soft_delete_harvest(tok, id) /\ db' # db)
RetryChanges_update_harvest(tok, id, b) ==
    ENABLED (update_harvest(tok, 1, id, b) /\ db' # db)
RetryChanges_soft_delete_crop(tok) ==
    ENABLED (soft_delete_crop(tok, 1) /\ db' # db)
RetryChanges_soft_delete_farm(tok) ==
    ENABLED (soft_delete_farm(tok, 1) /\ db' # db)

(* C19: a harvest soft-delete, a harvest update, a crop soft-delete or a
   farm soft-delete issued a second time right after the first leaves every
   table, and so every status and derived field (last_harvest_date,
   crop_stage, method status, FarmExpect status), as the first left it. *)
C19_RetryIsIdempotent ==
    [][/\ resp'.route = "soft_delete_harvest" =>
            \A tok \in Users, id \in HarvestIds :
              soft_delete_harvest(tok, id) => ~RetryChanges_soft_delete_harvest(tok, id)'
       /\ resp'.route = "update_harvest" =>
            \A tok \in Users, id \in HarvestIds, b \in UpdateHarvestBodies :
              update_harvest(tok, 1, id, b) => ~RetryChanges_update_harvest(tok, id, b)'
       /\ resp'.route = "soft_delete_crop" =>
            \A tok \in Users :
              soft_delete_crop(tok, 1) => ~RetryChanges_soft_delete_crop(tok)'
       /\ resp'.route = "soft_delete_farm" =>
            \A tok \in Users :
              soft_delete_farm(tok, 1) => ~RetryChanges_soft_delete_farm(tok)']_vars

(* the rules have acted: a harvest is deleted, farm 1 is terminated with its
   FarmExpect, and crop 1 was terminated last, with its method *)
C19_Witness ==
    /\ resp = [route |-> "soft_delete_crop", status |-> 200]
    /\ \E h \in Ids(harvest) : harvest[h].record_status = "deleted"
    /\ crops[1].crop_status = "terminated"
    /\ methods[2].record_status = "deleted"
    /\ ~farms[1].farm_is_active
    /\ \E e \in Ids(farm_expect) : farm_expect[e].record_status = "deleted"


(* Unauthorized, Forbidden, NotFound, Conflict, InvalidState, ValidationError *)
ClientErrors == {400, 401, 403, 404, 409, 422}

(* C20: a request answered with an authorization or lookup failure (401,
   403, 404) or with a conflict, invalid-state or validation error (400,
   409, 422) leaves every table as it was, a PlantMethod row the request
   flushed included. Every step of the specification is one request, and
   resp' is its answer. *)
C20_FailedRequestWritesNothing ==
    [][resp'.status \in ClientErrors => db' = db]_vars

(* crops and a method given as other_method exist, and the last request, an
   update_crop, was refused *)
C20_Witness ==
    /\ resp.route = "update_crop"
    /\ resp.status \in {403, 404}
    /\ crops # <<>>
    /\ \E m \in Ids(methods) : methods[m].record_created_by # NULL


NotStale(c) == crops[c].last_harvest_date = MaxActiveHarvestDate(c)

(* C21, run one after the other: a harvest soft-delete that starts with no
   other soft-delete in flight, on a crop whose last_harvest_date is the
   greatest harvest_date of its active harvests, and commits before any
   other request reads, leaves it the greatest harvest_date of the harvests
   that remain active. *)
C21_SequentialDeleteNotStale ==
    [][resp'.route = "soft_delete_harvest" =>
       \A tok \in Users, id \in HarvestIds :
         (/\ soft_delete_harvest(tok, id)
          /\ inflight = {}
          /\ id \in Ids(harvest)
          /\ NotStale(harvest[id].crop_id))
         => NotStale(harvest[id].crop_id)']_vars

(* C21, interleaved: both harvests of crop 1 are deleted by two requests
   that read before either committed, and last_harvest_date still names one
   of them. Requests run one after the other never get here: the last
   delete finds its own row the only active one and writes NULL. *)
C21_Witness ==
    /\ inflight = {}
    /\ resp = [route |-> "soft_delete_harvest", status |-> 200]
    /\ Len(harvest) = 2
    /\ \A h \in Ids(harvest) : harvest[h].crop_id = 1 /\ harvest[h].record_status = "deleted"
    /\ crops[1].last_harvest_date # NULL


(* C22: a harvest create answered 200 with harvest date d sets the crop's
   last_harvest_date to d when it was NULL or d is not earlier than every
   harvest_date of the crop's active harvests, and leaves it as it was when
   d is earlier than last_harvest_date. *)
C22_CreateKeepsLaterDate ==
    [][(resp'.route = "create_harvest_from_nfc" /\ resp'.status = 200) =>
       \A tok \in Users, b \in CreateHarvestBodies :
         create_harvest_from_nfc(tok, b) =>
           LET c == CropByNfc(b.nfc_code)
               last == crops[c].last_harvest_date
           IN /\ (last = NULL \/ b.harvest_date >= MaxActiveHarvestDate(c))
                 => crops'[c].last_harvest_date = b.harvest_date
              /\ (last # NULL /\ b.harvest_date < last)
                 => crops'[c].last_harvest_date = last]_vars


(* C23: a harvest update answered 200 that changes the harvest_date of an
   active harvest sets the crop's last_harvest_date to the greatest
   harvest_date of the crop's active harvests as they are after the update;
   one that does not change harvest_date leaves last_harvest_date as it
   was. *)
C23_UpdateRecomputesMax ==
    [][(resp'.route = "update_harvest" /\ resp'.status = 200) =>
       \A tok \in Users, nfc \in NfcCodes, id \in HarvestIds, b \in UpdateHarvestBodies :
         update_harvest(tok, nfc, id, b) =>
           LET c == harvest[id].crop_id IN
           IF harvest'[id].harvest_date # harvest[id].harvest_date
           THEN crops'[c].last_harvest_date = MaxActiveHarvestDate(c)'
           ELSE crops'[c].last_harvest_date = crops[c].last_harvest_date]_vars


(* the active harvests of the crop of harvest id, id left out *)
RemainingHarvests(id) ==
    {h \in Ids(harvest) : /\ h # id
                          /\ harvest[h].crop_id = harvest[id].crop_id
                          /\ harvest[h].record_status = "active"}

(* C24: a harvest soft-delete answered 200 of an active harvest that is the
   most recent active harvest of its crop sets last_harvest_date to the
   harvest_date of the next most recent active harvest, NULL when none
   remains; a soft-delete of a harvest that is not the most recent leaves
   last_harvest_date as it was. *)
C24_DeleteRecomputesFromRemaining ==
    [][(resp'.route = "soft_delete_harvest" /\ resp'.status = 200) =>
       \A tok \in Users, id \in HarvestIds :
         (/\ soft_delete_harvest(tok, id)
          /\ id \in Ids(harvest)
          /\ harvest[id].record_status = "active") =>
           LET c == harvest[id].crop_id
               remaining == RemainingHarvests(id)
           IN IF \A h \in remaining : harvest[h].harvest_date <= harvest[id].harvest_date
              THEN crops'[c].last_harvest_date =
                     IF remaining = {} THEN NULL ELSE Max(HarvestDates(remaining))
              ELSE crops'[c].last_harvest_date = crops[c].last_harvest_date]_vars

(* a harvest was deleted, another one of the crop is still active, and
   last_harvest_date is its date *)
C24_Witness ==
    /\ resp = [route |-> "soft_delete_harvest", status |-> 200]
    /\ \E h1, h2 \in Ids(harvest) :
         /\ harvest[h1].record_status = "deleted"
         /\ harvest[h2].record_status = "active"
         /\ harvest[h1].crop_id = harvest[h2].crop_id
         /\ harvest[h1].harvest_date > harvest[h2].harvest_date
         /\ crops[harvest[h2].crop_id].last_harvest_date = harvest[h2].harvest_date


(* the records of crop c that are not deleted *)
LiveDaily(c) ==
    {d \in Ids(crop_daily) : crop_daily[d].crop_id = c /\ crop_daily[d].crop_status # "deleted"}

(* C25: a crop-daily soft-delete answered 200 of the record the crop
   reflects, which is the latest record of the crop that is not deleted,
   sets crop_stage to the stage of the latest record that remains, NULL
   when none remains; a soft-delete of another record leaves crop_stage as
   it was. *)
C25_DeleteAdoptsRemainingStage ==
    [][(resp'.route = "soft_delete_today_daily_crop_by_nfc" /\ resp'.status = 200) =>
       \A tok \in Users, nfc \in NfcCodes :
         soft_delete_today_daily_crop_by_nfc(tok, nfc) =>
           LET c == CropByNfc(nfc)
               daily_crop == CHOOSE d \in TodaysDaily(nfc) : TRUE
           IN IF daily_crop = Max(LiveDaily(c))
              THEN crops'[c].crop_stage = LatestNonDeletedStage(c)'
              ELSE crops'[c].crop_stage = crops[c].crop_stage]_vars

(* today's record was deleted and the crop has taken the other stage, from
   the record that remains *)
C25_Witness ==
    /\ resp = [route |-> "soft_delete_today_daily_crop_by_nfc", status |-> 200]
    /\ \E d1, d2 \in Ids(crop_daily) :
         /\ crop_daily[d1].crop_id = crop_daily[d2].crop_id
         /\ crop_daily[d1].crop_status # "deleted"
         /\ crop_daily[d2].crop_status = "deleted"
         /\ crop_daily[d2].record_created_date = today
         /\ crop_daily[d1].crop_stage # crop_daily[d2].crop_stage
         /\ crops[crop_daily[d1].crop_id].crop_stage = crop_daily[d1].crop_stage


(* the method table has one more row, active and created by u, and the crop
   row references it *)
NewMethodFor(u, crop_row) ==
    /\ methods' = Append(methods, MethodRow(u))
    /\ crop_row.method_id = Len(methods')

(* C26: a crop create or update whose body carries an other_method adds,
   when it is answered 200, exactly one PlantMethod row, created by the
   caller and active, and the crop references that row whatever method_id
   the body gave; when it is answered with an error the method table is as
   before. *)
C26_OtherMethodCreatesOwnedMethod ==
    [][/\ (resp'.route \in {"create_crop", "update_crop"} /\ resp'.status # 200)
            => methods' = methods
       /\ (resp'.route = "create_crop" /\ resp'.status = 200) =>
            \A tok \in Users, b \in CropBodies :
              (b.other_method # NULL /\ create_crop(tok, b)) =>
                (Len(crops') = Len(crops) + 1 /\ NewMethodFor(tok, crops'[Len(crops')]))
       /\ (resp'.route = "update_crop" /\ resp'.status = 200) =>
            \A tok \in Users, nfc \in NfcCodes, b \in CropUpdateBodies :
              (b.other_method # NULL /\ update_crop(tok, nfc, b)) =>
                NewMethodFor(tok, crops'[CropByNfc(nfc)])]_vars

(* a crop update has been answered 200 and crop 1 references method 2, the
   method its owner gave as other_method *)
C26_Witness ==
    /\ resp = [route |-> "update_crop", status |-> 200]
    /\ Len(crops) >= 1
    /\ Len(methods) >= 2
    /\ crops[1].method_id = 2
    /\ methods[2] = MethodRow(farms[crops[1].farm_id].user_id)


(* C27: after any sequence of crop create, update and soft-delete requests
   every global planting method (record_created_by NULL) has record_status
   active. *)
C27_GlobalMethodStaysActive ==
    \A m \in Ids(methods) :
      methods[m].record_created_by = NULL => methods[m].record_status = "active"


(* C28: when the commit of a crop soft-delete is the last one in flight and
   leaves no active crop on the user-created method of its crop, the
   method's record_status is deleted, also when the soft-delete of the other
   crop of the method read before this one committed. *)
C28_MethodDeletedAfterBothDeletes ==
    [][resp'.route = "soft_delete_crop" =>
       \A request \in inflight :
         (/\ soft_delete_crop_commit(request)
          /\ inflight' = {}
          /\ UserCreated(request.method_id)
          /\ ActiveCropsOfMethod(request.method_id)' = {})
         => methods'[request.method_id].record_status = "deleted"]_vars


(* C29: a crop-daily update by the owner of an active crop changes no
   record other than the latest record of the crop that is not deleted, so
   it never rewrites a soft-deleted record; when the crop has no record
   that is not deleted the update is answered with an error and changes
   neither CropDaily nor the crop. *)
C29_UpdateSkipsDeletedDaily ==
    [][resp'.route = "update_latest_daily_crop" =>
       \A tok \in Users, nfc \in NfcCodes, b \in UpdateDailyBodies :
         (/\ update_latest_daily_crop(tok, nfc, b)
          /\ ActiveCropsByNfc(nfc) # {}
          /\ OwnsFarm(tok, crops[CropByNfc(nfc)].farm_id))
         => LET live == LiveDaily(CropByNfc(nfc)) IN
            IF live = {}
            THEN resp'.status >= 400 /\ crop_daily' = crop_daily /\ crops' = crops
            ELSE \A d \in Ids(crop_daily) :
                   d # Max(live) => crop_daily'[d] = crop_daily[d]]_vars


OneActiveHarvestPerDay ==
    \A h1, h2 \in Ids(harvest) :
      (/\ harvest[h1].nfc_code = harvest[h2].nfc_code
       /\ harvest[h1].record_status = "active"
       /\ harvest[h2].record_status = "active"
       /\ DateOf(harvest[h1].harvest_date) = DateOf(harvest[h2].harvest_date)) => h1 = h2

(* the update moves harvest id onto a calendar day on which its NFC code has
   another active harvest *)
MovesOntoTakenDay(id, update_data) ==
    /\ id \in Ids(harvest)
    /\ harvest[id].record_status = "active"
    /\ update_data.harvest_date # NULL
    /\ \E h \in ActiveHarvests(harvest[id].nfc_code) \ {id} :
         DateOf(harvest[h].harvest_date) = DateOf(update_data.harvest_date)

(* C30: an NFC code keeps at most one active harvest per calendar day across
   harvest updates: from a state in which that holds, an update by the owner
   leaves it holding, and an update that moves a harvest onto a calendar day
   on which the NFC code has another active harvest is answered with an
   error and leaves the harvest table unchanged. *)
C30_OneHarvestPerDayAfterUpdate ==
    [][(resp'.route = "update_harvest" /\ OneActiveHarvestPerDay) =>
          \A tok \in Users, nfc \in NfcCodes, id \in HarvestIds, b \in UpdateHarvestBodies :
            (update_harvest(tok, nfc, id, b) /\ MayHarvest(tok, nfc))
            => /\ OneActiveHarvestPerDay'
               /\ (MovesOntoTakenDay(id, b) /\ harvest[id].nfc_code = nfc)
                    => (resp'.status >= 400 /\ harvest' = harvest)]_vars

=============================================================================
